---- MODULE Spec2Model ----
(***************************************************************************)
(* Modified UTF-8 codec of HotSpot (src/hotspot/share/utilities/utf8.cpp). *)
(*                                                                         *)
(* The functions of the file are stateless; the state of the model is the  *)
(* caller's side of one call: which entry point is called (op), its        *)
(* arguments (arg), the caller-owned byte buffer (mem), the results        *)
(* (ret), and, for the functions run loop by loop (quoted_ascii_length,    *)
(* from_quoted_ascii), the loop's locals (ptr, result, loc).  Init draws a *)
(* call and its inputs; one action per entry point or loop step applies    *)
(* the code to them.                                                       *)
(*                                                                         *)
(* A C array is a sequence; the C index i is the sequence index i + 1.     *)
(* jchar is 0..65535, u_char is 0..255, jbyte is -128..127.                *)
(***************************************************************************)
EXTENDS Integers, Sequences, FiniteSets, TLC

VARIABLES op, arg, mem, ret, pc, chk, ptr, result, loc

vars == <<op, arg, mem, ret, pc, chk, ptr, result, loc>>

----------------------------------------------------------------------------
(* C integer operations *)

RECURSIVE BitAnd(_, _)
BitAnd(a, b) ==
  IF a = 0 \/ b = 0 THEN 0
  ELSE (a % 2) * (b % 2) + 2 * BitAnd(a \div 2, b \div 2)

RECURSIVE BitOr(_, _)
BitOr(a, b) ==
  IF a = 0 THEN b
  ELSE IF b = 0 THEN a
  ELSE (IF a % 2 = 1 \/ b % 2 = 1 THEN 1 ELSE 0) + 2 * BitOr(a \div 2, b \div 2)

Shl(a, n) == a * (2 ^ n)
Shr(a, n) == a \div (2 ^ n)

\* conversions to unsigned char, jchar (unsigned 16 bits) and jbyte (signed 8 bits)
to_u_char(x) == x % 256
to_jchar(x) == x % 65536
to_jbyte(x) == ((x + 128) % 256) - 128

\* (T)x for the two code-unit widths the templates are instantiated with
cast(T, x) == IF T = "jchar" THEN to_jchar(x) ELSE to_jbyte(x)

\* str[i] of a C array
At(str, i) == str[i + 1]

\* The bytes of a NUL-terminated string before its first NUL.
RECURSIVE c_str(_)
c_str(s) == IF s = <<>> \/ Head(s) = 0 THEN <<>> ELSE <<Head(s)>> \o c_str(Tail(s))

strlen(s) == Len(c_str(s))

----------------------------------------------------------------------------
(* Single-character codec *)

\* The switch of UTF8::next on the lead byte at str[p]: length and result, the
\* length left at -1 ("bad length") where no case sets it.
next_switch(str, p) ==
  LET ch == At(str, p)
      hi == Shr(ch, 4)
      bad == [length |-> -1, result |-> 0]
  IN IF hi \in {8, 9, 10, 11, 15} THEN bad
     ELSE IF hi \in {12, 13} THEN
       IF BitAnd(At(str, p + 1), \hC0) = \h80
       THEN LET high_five == BitAnd(ch, \h1F)
                low_six == BitAnd(At(str, p + 1), \h3F)
            IN [length |-> 2, result |-> to_jchar(Shl(high_five, 6) + low_six)]
       ELSE bad
     ELSE IF hi = 14 THEN
       IF BitAnd(At(str, p + 1), \hC0) = \h80 /\ BitAnd(At(str, p + 2), \hC0) = \h80
       THEN LET high_four == BitAnd(ch, \h0F)
                mid_six == BitAnd(At(str, p + 1), \h3F)
                low_six == BitAnd(At(str, p + 2), \h3F)
            IN [length |-> 3,
                result |-> to_jchar(Shl(Shl(high_four, 6) + mid_six, 6) + low_six)]
       ELSE bad
     ELSE [length |-> 1, result |-> ch]

\* next without its test of the length: the pointer moves by whatever the
\* switch left in length.
next_unchecked_length(str, p, T) ==
  LET dec == next_switch(str, p)
  IN [value |-> cast(T, dec.result), ptr |-> p + dec.length]

\* UTF8::next<T>(str + p, &value): the decoded value and the pointer returned.
next(str, p, T) ==
  LET dec == next_switch(str, p)
  IN IF dec.length <= 0
     THEN [value |-> cast(T, At(str, p)), ptr |-> p + 1]
     ELSE [value |-> cast(T, dec.result), ptr |-> p + dec.length]

is_supplementary_character(str, p) ==
  /\ BitAnd(At(str, p), \hFF) = \hED
  /\ BitAnd(At(str, p + 1), \hF0) = \hA0
  /\ BitAnd(At(str, p + 2), \hC0) = \h80
  /\ BitAnd(At(str, p + 3), \hFF) = \hED
  /\ BitAnd(At(str, p + 4), \hF0) = \hB0
  /\ BitAnd(At(str, p + 5), \hC0) = \h80

\* get_supplementary_character without the 0x10000 the pair stands above.
get_supplementary_character_no_offset(str, p) ==
  Shl(BitAnd(At(str, p + 1), \h0F), 16)
  + Shl(BitAnd(At(str, p + 2), \h3F), 10)
  + Shl(BitAnd(At(str, p + 4), \h0F), 6)
  + BitAnd(At(str, p + 5), \h3F)

get_supplementary_character(str, p) ==
  \h10000 + Shl(BitAnd(At(str, p + 1), \h0F), 16)
          + Shl(BitAnd(At(str, p + 2), \h3F), 10)
          + Shl(BitAnd(At(str, p + 4), \h0F), 6)
          + BitAnd(At(str, p + 5), \h3F)

next_character(str, p) ==
  IF is_supplementary_character(str, p)
  THEN [value |-> get_supplementary_character(str, p), ptr |-> p + 6]
  ELSE LET r == next(str, p, "jchar") IN [value |-> r.value, ptr |-> r.ptr]

\* utf8_write with the middle six bits of the 3-byte form left unmasked.
utf8_write_unmasked_mid(ch) ==
  IF ch # 0 /\ ch <= \h7F THEN <<to_u_char(ch)>>
  ELSE IF ch <= \h7FF THEN
    <<to_u_char(BitOr(to_u_char(Shr(ch, 6)), \hC0)),
      to_u_char(BitOr(to_u_char(BitAnd(ch, \h3F)), \h80))>>
  ELSE
    <<to_u_char(BitOr(Shr(ch, 12), \hE0)),
      to_u_char(BitOr(Shr(ch, 6), \h80)),
      to_u_char(BitOr(BitAnd(ch, \h3F), \h80))>>

\* utf8_write(base, ch): the bytes stored at base[0..]; the pointer returned is
\* base + Len of them.
utf8_write(ch) ==
  IF ch # 0 /\ ch <= \h7F THEN <<to_u_char(ch)>>
  ELSE IF ch <= \h7FF THEN
    LET high_five == to_u_char(Shr(ch, 6))
        low_six == to_u_char(BitAnd(ch, \h3F))
    IN <<to_u_char(BitOr(high_five, \hC0)), to_u_char(BitOr(low_six, \h80))>>
  ELSE
    LET high_four == Shr(ch, 12)
        mid_six == BitAnd(Shr(ch, 6), \h3F)
        low_six == BitAnd(ch, \h3F)
    IN <<to_u_char(BitOr(high_four, \hE0)),
         to_u_char(BitOr(mid_six, \h80)),
         to_u_char(BitOr(low_six, \h80))>>

----------------------------------------------------------------------------
(* Sizes and bulk conversion *)

utf8_size_jchar(c) ==
  IF \h0001 <= c /\ c <= \h007F THEN 1
  ELSE IF c <= \h07FF THEN 2
  ELSE 3

\* utf8_size(jbyte) taking NUL for an ASCII character.
utf8_size_jbyte_nul_ascii(c) == IF c >= 0 THEN 1 ELSE 2

utf8_size_jbyte(c) == IF c >= 1 THEN 1 ELSE 2

utf8_size(T, c) == IF T = "jchar" THEN utf8_size_jchar(c) ELSE utf8_size_jbyte(c)

RECURSIVE utf8_length_from(_, _, _, _)
utf8_length_from(T, base, index, acc) ==
  IF index < Len(base)
  THEN utf8_length_from(T, base, index + 1, acc + utf8_size(T, At(base, index)))
  ELSE acc

utf8_length(T, base) == utf8_length_from(T, base, 0, 0)

\* The jchar loop of as_utf8 stopping only when sz > buflen: no room is kept
\* for the NUL.
RECURSIVE as_utf8_jchar_loop_no_room(_, _, _, _)
as_utf8_jchar_loop_no_room(base, index, p, buflen) ==
  IF index < Len(base)
  THEN LET c == At(base, index)
           sz == utf8_size_jchar(c)
       IN IF sz > buflen THEN p \o <<0>>
          ELSE as_utf8_jchar_loop_no_room(base, index + 1, p \o utf8_write(c), buflen - sz)
  ELSE p \o <<0>>

\* The loop of UNICODE::as_utf8(const jchar*, int, char*, size_t): p is what has
\* been written so far, buflen what is left of the capacity.
RECURSIVE as_utf8_jchar_loop(_, _, _, _)
as_utf8_jchar_loop(base, index, p, buflen) ==
  IF index < Len(base)
  THEN LET c == At(base, index)
           sz == utf8_size_jchar(c)
       IN IF sz >= buflen THEN p \o <<0>>
          ELSE as_utf8_jchar_loop(base, index + 1, p \o utf8_write(c), buflen - sz)
  ELSE p \o <<0>>

as_utf8_jchar(base, buflen) == as_utf8_jchar_loop(base, 0, <<>>, buflen)

\* The loop of UNICODE::as_utf8(const jbyte*, int, char*, size_t).
RECURSIVE as_utf8_jbyte_loop(_, _, _, _)
as_utf8_jbyte_loop(base, index, p, buflen) ==
  IF index < Len(base)
  THEN LET c == At(base, index)
           sz == utf8_size_jbyte(c)
       IN IF sz >= buflen THEN p \o <<0>>
          ELSE IF sz = 1
          THEN as_utf8_jbyte_loop(base, index + 1, p \o <<to_u_char(c)>>, buflen - sz)
          ELSE as_utf8_jbyte_loop(base, index + 1,
                                  p \o utf8_write(BitAnd(to_jchar(c), \hFF)), buflen - sz)
  ELSE p \o <<0>>

as_utf8_jbyte(base, buflen) == as_utf8_jbyte_loop(base, 0, <<>>, buflen)

as_utf8_buf(T, base, buflen) ==
  IF T = "jchar" THEN as_utf8_jchar(base, buflen) ELSE as_utf8_jbyte(base, buflen)

\* UNICODE::as_utf8(const T* base, size_t& length): the buffer allocated and
\* filled, the outgoing length, and whether the assertion held.
as_utf8(T, base) ==
  LET utf8_len == utf8_length(T, base)
      res == as_utf8_buf(T, base, utf8_len + 1)
  IN [result |-> res, length |-> utf8_len, capacity |-> utf8_len + 1,
      assert_ok |-> (strlen(res) = utf8_len)]

RECURSIVE convert_to_utf8_loop(_, _, _)
convert_to_utf8_loop(base, index, utf8_buffer) ==
  IF index < Len(base)
  THEN convert_to_utf8_loop(base, index + 1, utf8_buffer \o utf8_write(At(base, index)))
  ELSE utf8_buffer \o <<0>>

convert_to_utf8(base) == convert_to_utf8_loop(base, 0, <<>>)

----------------------------------------------------------------------------
(* Counting characters *)

\* The loop body of unicode_length(str, len, ..) comparing prev >= 0xC3.
unicode_length_body_c3(c, prev, st) ==
  IF BitAnd(c, \hC0) = \h80
  THEN [num_chars |-> st.num_chars - 1,
        has_multibyte |-> TRUE,
        is_latin1 |-> IF prev >= \hC3 THEN FALSE ELSE st.is_latin1]
  ELSE st

\* The loop body of UTF8::unicode_length(const char* str, size_t len, bool&, bool&)
\* for the byte c that follows the byte prev.
unicode_length_body(c, prev, st) ==
  IF BitAnd(c, \hC0) = \h80
  THEN [num_chars |-> st.num_chars - 1,
        has_multibyte |-> TRUE,
        is_latin1 |-> IF prev > \hC3 THEN FALSE ELSE st.is_latin1]
  ELSE st

RECURSIVE unicode_length_loop(_, _, _, _, _)
unicode_length_loop(str, len, i, prev, st) ==
  IF i < len
  THEN LET c == At(str, i)
       IN unicode_length_loop(str, len, i + 1, c, unicode_length_body(c, prev, st))
  ELSE st

unicode_length(str, len) ==
  unicode_length_loop(str, len, 0, 0,
                      [num_chars |-> len, has_multibyte |-> FALSE, is_latin1 |-> TRUE])

\* UTF8::unicode_length(const char* str, bool&, bool&) of a NUL-terminated string
RECURSIVE unicode_length_nul_loop(_, _, _, _)
unicode_length_nul_loop(str, p, prev, st) ==
  IF At(str, p) # 0
  THEN LET c == At(str, p)
           st2 == IF BitAnd(c, \hC0) = \h80
                  THEN [num_chars |-> st.num_chars,
                        has_multibyte |-> TRUE,
                        is_latin1 |-> IF prev > \hC3 THEN FALSE ELSE st.is_latin1]
                  ELSE [st EXCEPT !.num_chars = @ + 1]
       IN unicode_length_nul_loop(str, p + 1, c, st2)
  ELSE st

unicode_length_nul(str) ==
  unicode_length_nul_loop(str, 0, 0,
                          [num_chars |-> 0, has_multibyte |-> FALSE, is_latin1 |-> TRUE])

----------------------------------------------------------------------------
(* Validator *)

\* The block test without the b - 1 terms: a NUL no longer sets the high bit.
fast_block_res_no_zero_test(buffer, i) ==
  to_u_char(BitOr(BitOr(At(buffer, i), At(buffer, i + 1)),
                  BitOr(At(buffer, i + 2), At(buffer, i + 3))))

\* One block of the fast path: (unsigned char)(b0 | (b0 - 1) | ... | b3 | (b3 - 1)).
\* The operands are ints; only their low 8 bits reach res.
fast_block_res(buffer, i) ==
  LET b0 == At(buffer, i)
      b1 == At(buffer, i + 1)
      b2 == At(buffer, i + 2)
      b3 == At(buffer, i + 3)
      m(b) == BitOr(b, to_u_char(b - 1))
  IN to_u_char(BitOr(BitOr(m(b0), m(b1)), BitOr(m(b2), m(b3))))

\* The first loop of is_legal_utf8: the index the second loop starts at.
RECURSIVE is_legal_utf8_fast(_, _, _, _)
is_legal_utf8_fast(buffer, count, k, i) ==
  IF k < count
  THEN IF fast_block_res(buffer, i) >= 128 THEN i
       ELSE is_legal_utf8_fast(buffer, count, k + 1, i + 4)
  ELSE i

\* The second loop of is_legal_utf8, from index i.
RECURSIVE is_legal_utf8_scan(_, _, _, _)
is_legal_utf8_scan(buffer, length, i, version_leq_47) ==
  IF ~(i < length) THEN TRUE
  ELSE IF At(buffer, i) = 0 THEN FALSE
  ELSE IF At(buffer, i) < 128
    THEN is_legal_utf8_scan(buffer, length, i + 1, version_leq_47)
  ELSE IF (i + 5) < length /\ is_supplementary_character(buffer, i)
    THEN is_legal_utf8_scan(buffer, length, i + 5 + 1, version_leq_47)
  ELSE LET hi == Shr(At(buffer, i), 4) IN
    IF hi \in {8, 9, 10, 11, 15} THEN FALSE
    ELSE IF hi \in {12, 13} THEN
      LET c0 == Shl(BitAnd(At(buffer, i), \h1F), 6)
          j == i + 1
      IN IF /\ j < length
            /\ BitAnd(At(buffer, j), \hC0) = \h80
            /\ LET c == to_jchar(c0 + BitAnd(At(buffer, j), \h3F))
               IN version_leq_47 \/ c = 0 \/ c >= \h80
         THEN is_legal_utf8_scan(buffer, length, j + 1, version_leq_47)
         ELSE FALSE
    ELSE IF hi = 14 THEN
      LET c0 == to_jchar(Shl(BitAnd(At(buffer, i), \h0F), 12))
          j == i + 2
      IN IF /\ j < length
            /\ BitAnd(At(buffer, j - 1), \hC0) = \h80
            /\ BitAnd(At(buffer, j), \hC0) = \h80
            /\ LET c == to_jchar(c0 + Shl(BitAnd(At(buffer, j - 1), \h3F), 6)
                                    + BitAnd(At(buffer, j), \h3F))
               IN version_leq_47 \/ c >= \h800
         THEN is_legal_utf8_scan(buffer, length, j + 1, version_leq_47)
         ELSE FALSE
    ELSE is_legal_utf8_scan(buffer, length, i + 1, version_leq_47)

is_legal_utf8(buffer, length, version_leq_47) ==
  is_legal_utf8_scan(buffer, length,
                     is_legal_utf8_fast(buffer, Shr(length, 2), 0, 0),
                     version_leq_47)

\* The test of one byte in the && chain of is_supplementary_character(&str[p]).
supplementary_test(str, p, k) ==
  CASE k = 0 -> BitAnd(At(str, p), \hFF) = \hED
    [] k = 1 -> BitAnd(At(str, p + 1), \hF0) = \hA0
    [] k = 2 -> BitAnd(At(str, p + 2), \hC0) = \h80
    [] k = 3 -> BitAnd(At(str, p + 3), \hFF) = \hED
    [] k = 4 -> BitAnd(At(str, p + 4), \hF0) = \hB0
    [] k = 5 -> BitAnd(At(str, p + 5), \hC0) = \h80

\* The indices is_supplementary_character(&str[p]) reads: a byte is read only if
\* the tests of the bytes before it held.
is_supplementary_character_reads(str, p) ==
  {p + k : k \in {n \in 0..5 : \A j \in 0..(n - 1) : supplementary_test(str, p, j)}}

\* The test before the supplementary pattern is looked for, as i + 5 <= length.
supplementary_in_range_leq(i, length) == (i + 5) <= length

\* The test before the supplementary pattern is looked for.
supplementary_in_range(i, length) == (i + 5) < length

\* Whether one of the indices is outside the length bytes given to
\* is_legal_utf8; what the code does after such an access is not defined, and
\* the run is followed no further.
stray(indices, length) == \E r \in indices : r < 0 \/ r >= length

\* The first loop of is_legal_utf8 with the indices it reads and the values i
\* takes.
RECURSIVE is_legal_utf8_fast_run(_, _, _, _, _, _, _)
is_legal_utf8_fast_run(buffer, length, count, k, i, reads, path) ==
  IF k < count
  THEN LET block == {i, i + 1, i + 2, i + 3}
           rd == reads \cup block
       IN IF stray(block, length)
          THEN [i |-> i, reads |-> rd, path |-> path, stray |-> TRUE]
          ELSE IF fast_block_res(buffer, i) >= 128
          THEN [i |-> i, reads |-> rd, path |-> path, stray |-> FALSE]
          ELSE is_legal_utf8_fast_run(buffer, length, count, k + 1, i + 4,
                                      rd, Append(path, i + 4))
  ELSE [i |-> i, reads |-> reads, path |-> path, stray |-> FALSE]

\* The second loop of is_legal_utf8 with the indices it reads and the values i
\* takes: the right side of an && is read only if the left side held.
RECURSIVE is_legal_utf8_scan_run(_, _, _, _, _, _)
is_legal_utf8_scan_run(buffer, length, i, version_leq_47, reads, path) ==
  LET return(res, rd, pa) == [result |-> res, reads |-> rd, path |-> pa, stray |-> FALSE]
      lost(rd, pa) == [result |-> FALSE, reads |-> rd, path |-> pa, stray |-> TRUE]
  IN
  IF ~(i < length) THEN return(TRUE, reads, path)
  ELSE LET r0 == reads \cup {i} IN
    IF stray({i}, length) THEN lost(r0, path)
    ELSE IF At(buffer, i) = 0 THEN return(FALSE, r0, path)
    ELSE IF At(buffer, i) < 128
      THEN is_legal_utf8_scan_run(buffer, length, i + 1, version_leq_47,
                                  r0, Append(path, i + 1))
    ELSE LET in_range == supplementary_in_range(i, length)
             chain == IF in_range THEN is_supplementary_character_reads(buffer, i) ELSE {}
             r1 == r0 \cup chain
         IN
      IF stray(chain, length) THEN lost(r1, path)
      ELSE IF in_range /\ is_supplementary_character(buffer, i)
      THEN is_legal_utf8_scan_run(buffer, length, i + 5 + 1, version_leq_47,
                                  r1, path \o <<i + 5, i + 5 + 1>>)
      ELSE LET hi == Shr(At(buffer, i), 4) IN
        IF hi \in {8, 9, 10, 11, 15} THEN return(FALSE, r1, path)
        ELSE IF hi \in {12, 13} THEN
          LET c0 == Shl(BitAnd(At(buffer, i), \h1F), 6)
              j == i + 1
              r2 == IF j < length THEN r1 \cup {j} ELSE r1
              p2 == Append(path, j)
          IN IF /\ j < length
                /\ BitAnd(At(buffer, j), \hC0) = \h80
                /\ LET c == to_jchar(c0 + BitAnd(At(buffer, j), \h3F))
                   IN version_leq_47 \/ c = 0 \/ c >= \h80
             THEN is_legal_utf8_scan_run(buffer, length, j + 1, version_leq_47,
                                         r2, Append(p2, j + 1))
             ELSE return(FALSE, r2, p2)
        ELSE IF hi = 14 THEN
          LET c0 == to_jchar(Shl(BitAnd(At(buffer, i), \h0F), 12))
              j == i + 2
              r2 == IF j < length
                    THEN IF BitAnd(At(buffer, j - 1), \hC0) = \h80
                         THEN r1 \cup {j - 1, j}
                         ELSE r1 \cup {j - 1}
                    ELSE r1
              p2 == Append(path, j)
          IN IF /\ j < length
                /\ BitAnd(At(buffer, j - 1), \hC0) = \h80
                /\ BitAnd(At(buffer, j), \hC0) = \h80
                /\ LET c == to_jchar(c0 + Shl(BitAnd(At(buffer, j - 1), \h3F), 6)
                                        + BitAnd(At(buffer, j), \h3F))
                   IN version_leq_47 \/ c >= \h800
             THEN is_legal_utf8_scan_run(buffer, length, j + 1, version_leq_47,
                                         r2, Append(p2, j + 1))
             ELSE return(FALSE, r2, p2)
        ELSE is_legal_utf8_scan_run(buffer, length, i + 1, version_leq_47,
                                    r1, Append(path, i + 1))

\* is_legal_utf8 with the indices of buffer it reads (reads) and the values its
\* index i takes, in order (path).
is_legal_utf8_run(buffer, length, version_leq_47) ==
  LET fast == is_legal_utf8_fast_run(buffer, length, Shr(length, 2), 0, 0, {}, <<0>>)
  IN IF fast.stray
     THEN [result |-> FALSE, reads |-> fast.reads, path |-> fast.path, stray |-> TRUE]
     ELSE is_legal_utf8_scan_run(buffer, length, fast.i, version_leq_47,
                                 fast.reads, fast.path)

----------------------------------------------------------------------------
(* Truncation repair *)

\* is_starting_byte taking continuation bytes for starting bytes too.
is_starting_byte_from_80(b) == b >= \h80 /\ b <= \hEF

is_starting_byte(b) == b >= \hC0 /\ b <= \hEF

\* The backward loop of truncate_to_legal_utf8: the buffer it leaves.
RECURSIVE truncate_loop(_, _)
truncate_loop(buf, index) ==
  IF index > 0
  THEN IF is_starting_byte(At(buf, index))
       THEN LET at == IF /\ At(buf, index) = \hED
                         /\ index >= 3
                         /\ At(buf, index - 3) = \hED
                         /\ BitAnd(At(buf, index - 2), \hF0) = \hA0
                      THEN index - 3
                      ELSE index
            IN [buf EXCEPT ![at + 1] = 0]
       ELSE truncate_loop(buf, index - 1)
  ELSE buf

\* Called with length > 5 and buffer[length - 1] = 0 (asserted by the code).
truncate_to_legal_utf8(buf, length) ==
  IF At(buf, length - 2) < 128 THEN buf
  ELSE truncate_loop(buf, length - 2)

----------------------------------------------------------------------------
(* Quoted ASCII *)

hex_digit(d) == IF d < 10 THEN 48 + d ELSE 97 + (d - 10)

RECURSIVE hex_digits(_)
hex_digits(v) ==
  IF v < 16 THEN <<hex_digit(v)>> ELSE hex_digits(v \div 16) \o <<hex_digit(v % 16)>>

pad4(s) == IF Len(s) >= 4 THEN s ELSE [i \in 1..(4 - Len(s)) |-> 48] \o s

\* What "\\u%04x" formats for the int c: a jchar or jbyte argument is promoted
\* to int and %x prints it as unsigned int, here as its two 16-bit halves.
format_u04x(c) ==
  LET hi == (c \div 65536) % 65536
      lo == c % 65536
  IN <<92, 117>> \o (IF hi = 0 THEN pad4(hex_digits(lo))
                     ELSE hex_digits(hi) \o pad4(hex_digits(lo)))

\* os::snprintf_checked(p, 7, "\\u%04x", c): the 6 characters stored before the NUL.
snprintf_u04x(c) == SubSeq(format_u04x(c), 1, 6)

\* UNICODE::as_quoted_ascii<T>
RECURSIVE unicode_as_quoted_ascii_loop(_, _, _, _)
unicode_as_quoted_ascii_loop(base, index, p, buflen) ==
  IF index < Len(base)
  THEN LET c == At(base, index)
       IN IF c >= 32 /\ c < 127
          THEN IF Len(p) + 1 >= buflen THEN p \o <<0>>
               ELSE unicode_as_quoted_ascii_loop(base, index + 1, p \o <<c>>, buflen)
          ELSE IF Len(p) + 6 >= buflen THEN p \o <<0>>
               ELSE unicode_as_quoted_ascii_loop(base, index + 1,
                                                 p \o snprintf_u04x(c), buflen)
  ELSE p \o <<0>>

unicode_as_quoted_ascii(base, buflen) == unicode_as_quoted_ascii_loop(base, 0, <<>>, buflen)

RECURSIVE unicode_quoted_ascii_length_loop(_, _, _)
unicode_quoted_ascii_length_loop(base, i, res) ==
  IF i < Len(base)
  THEN LET c == At(base, i)
       IN unicode_quoted_ascii_length_loop(base, i + 1,
                                           IF c >= 32 /\ c < 127 THEN res + 1 ELSE res + 6)
  ELSE res

unicode_quoted_ascii_length(base) == unicode_quoted_ascii_length_loop(base, 0, 0)

\* UTF8::as_quoted_ascii
RECURSIVE utf8_as_quoted_ascii_loop(_, _, _, _, _)
utf8_as_quoted_ascii_loop(utf8_str, utf8_len, q, p, buflen) ==
  IF q < utf8_len
  THEN LET r == next(utf8_str, q, "jchar")
           c == r.value
       IN IF c >= 32 /\ c < 127
          THEN IF Len(p) + 1 >= buflen THEN p \o <<0>>
               ELSE utf8_as_quoted_ascii_loop(utf8_str, utf8_len, r.ptr,
                                              p \o <<c>>, buflen)
          ELSE IF Len(p) + 6 >= buflen THEN p \o <<0>>
               ELSE utf8_as_quoted_ascii_loop(utf8_str, utf8_len, r.ptr,
                                              p \o snprintf_u04x(c), buflen)
  ELSE p \o <<0>>

utf8_as_quoted_ascii(utf8_str, utf8_len, buflen) ==
  utf8_as_quoted_ascii_loop(utf8_str, utf8_len, 0, <<>>, buflen)

\* The switch of from_quoted_ascii on a hex digit: the digit's value, -1 for the
\* default case.
hex_digit_value(c) ==
  IF 48 <= c /\ c <= 57 THEN c - 48
  ELSE IF 97 <= c /\ c <= 102 THEN 10 + c - 97
  ELSE IF 65 <= c /\ c <= 70 THEN 10 + c - 65
  ELSE -1

\* The loop over the four digits after \u, at digit i with ptr at p: the jchar
\* read and the pointer left, or the default case reached.
RECURSIVE from_quoted_ascii_digits(_, _, _, _)
from_quoted_ascii_digits(str, p, i, value) ==
  IF i < 4
  THEN LET d == hex_digit_value(At(str, p))
       IN IF d < 0 THEN [ok |-> FALSE, value |-> value, ptr |-> p + 1]
          ELSE from_quoted_ascii_digits(str, p + 1, i + 1, to_jchar(Shl(value, 4) + d))
  ELSE [ok |-> TRUE, value |-> value, ptr |-> p]

\* buffer[i] = v for an array of Len(cells) chars; a store past its end lands in
\* the memory behind it (beyond).
store(buf, i, v) ==
  IF i < Len(buf.cells) THEN [buf EXCEPT !.cells[i + 1] = v]
  ELSE [buf EXCEPT !.beyond = @ \cup {<<i, v>>}]

RECURSIVE store_all(_, _, _)
store_all(buf, i, bytes) ==
  IF bytes = <<>> THEN buf
  ELSE store_all(store(buf, i, Head(bytes)), i + 1, Tail(bytes))

\* The locals of from_quoted_ascii when its loop over the rounds starts.
from_quoted_ascii_locals(p) ==
  [round |-> 0, length |-> p, buffer_null |-> TRUE,
   buffer |-> [cells |-> <<>>, beyond |-> {}]]

\* The branch of the inner loop for a character that is no backslash: ptr is
\* left where it is.
from_quoted_ascii_literal(str, p, st) ==
  [st EXCEPT !.buffer = IF st.buffer_null THEN @ ELSE store(@, st.length, At(str, p)),
             !.length = @ + 1]

\* The branch of the inner loop for a backslash: the pointer and the locals it
\* leaves, or fatal where it reaches ShouldNotReachHere(), which does not return.
from_quoted_ascii_escape(str, p, st) ==
  LET e == At(str, p + 1)
      single(v) ==
        [ptr |-> p + 2, fatal |-> FALSE,
         st |-> [st EXCEPT !.buffer = IF st.buffer_null THEN @ ELSE store(@, st.length, v),
                           !.length = @ + 1]]
  IN IF e = 117 THEN
       LET d == from_quoted_ascii_digits(str, p + 2, 0, 0)
           bytes == utf8_write(d.value)
       IN IF ~d.ok THEN [ptr |-> d.ptr, fatal |-> TRUE, st |-> st]
          ELSE [ptr |-> d.ptr, fatal |-> FALSE,
                st |-> [st EXCEPT !.buffer = IF st.buffer_null THEN @
                                             ELSE store_all(@, st.length, bytes),
                                  !.length = @ + Len(bytes)]]
     ELSE IF e = 116 THEN single(9)
     ELSE IF e = 110 THEN single(10)
     ELSE IF e = 114 THEN single(13)
     ELSE IF e = 102 THEN single(12)
     ELSE [ptr |-> p, fatal |-> TRUE, st |-> st]

\* The end of a round: round 0 allocates length + 1 chars (fresh, each holding
\* fill) and keeps length as it is; round 1 stores the NUL at buffer[length].
from_quoted_ascii_round_end(st, fill) ==
  IF st.round = 0
  THEN [st EXCEPT !.round = 1, !.buffer_null = FALSE,
                  !.buffer = [cells |-> [i \in 1..(st.length + 1) |-> fill], beyond |-> {}]]
  ELSE [st EXCEPT !.round = 2, !.buffer = store(@, st.length, 0)]

----------------------------------------------------------------------------
(* The inputs the calls are made with *)

MaxUnits == 3
MaxBufUnits == 2
MaxBuflen == 7
MaxRawLen == 4
MaxFrags == 2
MaxChars == 3
MaxQuoteUnits == 2
MaxDecLen == 3
CodePointStride == 251
MaxQuotedFrags == 2
MaxScanSteps == 3
MaxLength == 8

SeqsUpTo(S, n) == UNION {[1..k -> S] : k \in 0..n}

RECURSIVE Concat(_)
Concat(ss) == IF ss = <<>> THEN <<>> ELSE Head(ss) \o Concat(Tail(ss))

\* 16-bit code units: the ends of every encoding range, NUL, both surrogate
\* halves and a character whose encoding starts with ED without being a surrogate.
JcharSamples ==
  {\h0000, \h0001, \h007F, \h0080, \h00FF, \h0100, \h07FF, \h0800,
   \hD55C, \hD83D, \hDE00, \hFFFF}

\* 8-bit code units, as the signed values a jbyte holds.
JbyteSamples == {-128, -61, -1, 0, 1, 65, 127}

UnitSamples(T) == IF T = "jchar" THEN JcharSamples ELSE JbyteSamples

Widths == {"jchar", "jbyte"}

\* Code points: the ends of the ranges of the encoding table, the surrogate
\* range, and every CodePointStride-th one.
CodePoints ==
  {\h0000, \h0001, \h007F, \h0080, \h07FF, \h0800, \h20AC, \hD7FF, \hD800,
   \hDBFF, \hDC00, \hDFFF, \hE000, \hFFFF, \h10000, \h103FF, \h10400, \h1F600,
   \h10FFFF}
  \cup {k * CodePointStride : k \in 0..(\h10FFFF \div CodePointStride)}

IsSurrogate(p) == \hD800 <= p /\ p <= \hDFFF

\* The UTF-16 code units a string holds for code point p.
UTF16(p) ==
  IF p < \h10000 THEN <<p>>
  ELSE <<\hD800 + Shr(p - \h10000, 10), \hDC00 + ((p - \h10000) % 1024)>>

\* Untrusted bytes: NUL, ASCII, continuation bytes (also of the Ax and Bx kinds),
\* 2-byte leads (overlong and not), 3-byte leads (E0, ED) and the illegal F0.
RawBytes == {\h00, \h41, \h80, \hA0, \hBF, \hC1, \hC2, \hE0, \hED, \hF0}

\* Longer untrusted buffers, made of pieces: a 4-byte ASCII block, well-formed
\* sequences of every length, overlong ones, cut ones, and stray bytes.
RawFrags ==
  {<<\h41>>, <<\h41, \h42, \h43, \h44>>, <<\h00>>, <<\h80>>, <<\hF0>>,
   <<\hC0, \h80>>, <<\hC1, \hBF>>, <<\hDF, \hBF>>, <<\hC2>>,
   <<\hE0, \h80, \h80>>, <<\hE0, \hA0, \h80>>, <<\hE2, \h82>>, <<\hE2, \h41, \h80>>,
   <<\hED, \hA0, \h80>>, <<\hED, \hB0, \h80>>, <<\hED, \hA0, \h80, \hED, \hB0>>,
   <<\hED, \hA0, \hBD, \hED, \hB8, \h80>>}

RawBuffers ==
  SeqsUpTo(RawBytes, MaxRawLen) \cup {Concat(fs) : fs \in SeqsUpTo(RawFrags, MaxFrags)}

\* Well-formed characters: 1, 2 and 3 bytes, the encoded NUL, both surrogate
\* halves, and a 3-byte character with lead byte ED that is no surrogate.
LegalChars ==
  {<<\h41>>, <<\hC0, \h80>>, <<\hC3, \hBF>>, <<\hE2, \h82, \hAC>>,
   <<\hED, \h95, \h9C>>, <<\hED, \hA0, \hBD>>, <<\hED, \hB8, \h80>>}

LegalSequences == {Concat(cs) : cs \in SeqsUpTo(LegalChars, MaxChars)}

\* A legal sequence cut at a byte position, NUL-terminated, of length > 5.
CutBuffers ==
  {SubSeq(s, 1, n) \o <<0>> : <<s, n>> \in {<<s, n>> \in LegalSequences \X (5..(3 * (MaxChars + 1))) : n <= Len(s)}}

\* Bytes the decoding loop is run over, and what may lie behind the buffer.
DecBytes == {\h09, \h41, \h80, \hC2, \hE2, \hF0}
TailBytes == {\h00, \h80, \h41}

\* Pieces of a quoted-ASCII string (text), the bytes each stands for (bytes), and
\* whether the piece is quoted ASCII: printable characters and the escapes
\* \t \n \r \f \u0041 \u00e9 \u20AC \u0000 are; a raw TAB, a raw byte E9 and
\* the escape \x are not.
QuotedFrags ==
  {[text |-> <<65>>, bytes |-> <<65>>, quoted |-> TRUE],
   [text |-> <<32>>, bytes |-> <<32>>, quoted |-> TRUE],
   [text |-> <<92, 116>>, bytes |-> <<9>>, quoted |-> TRUE],
   [text |-> <<92, 110>>, bytes |-> <<10>>, quoted |-> TRUE],
   [text |-> <<92, 114>>, bytes |-> <<13>>, quoted |-> TRUE],
   [text |-> <<92, 102>>, bytes |-> <<12>>, quoted |-> TRUE],
   [text |-> <<92, 117, 48, 48, 52, 49>>, bytes |-> <<\h41>>, quoted |-> TRUE],
   [text |-> <<92, 117, 48, 48, 101, 57>>, bytes |-> <<\hC3, \hA9>>, quoted |-> TRUE],
   [text |-> <<92, 117, 50, 48, 65, 67>>, bytes |-> <<\hE2, \h82, \hAC>>, quoted |-> TRUE],
   [text |-> <<92, 117, 48, 48, 48, 48>>, bytes |-> <<\hC0, \h80>>, quoted |-> TRUE],
   [text |-> <<9>>, bytes |-> <<9>>, quoted |-> FALSE],
   [text |-> <<\hE9>>, bytes |-> <<\hE9>>, quoted |-> FALSE],
   [text |-> <<92, 120>>, bytes |-> <<>>, quoted |-> FALSE]}

\* What a char array just allocated may hold.
FreshBytes == {\h00, \hAB}

----------------------------------------------------------------------------
(* The calls *)

Start(o, a, m) ==
  /\ op = o /\ arg = a /\ mem = m
  /\ ret = <<>> /\ chk = <<>> /\ pc = "call" /\ ptr = 0 /\ result = 0 /\ loc = <<>>

\* convert_to_utf8 of the code units of one code point (cp), or of any code
\* units (cp = -1).
InitConvertToUtf8 ==
  \/ \E p \in CodePoints : Start("convert_to_utf8", [cp |-> p, base |-> UTF16(p)], <<>>)
  \/ \E s \in SeqsUpTo(JcharSamples, MaxBufUnits) :
       Start("convert_to_utf8", [cp |-> -1, base |-> s], <<>>)

InitAsUtf8 ==
  \E T \in Widths : \E s \in SeqsUpTo(UnitSamples(T), MaxUnits) :
    Start("as_utf8", [T |-> T, base |-> s], <<>>)

InitAsUtf8Buf ==
  \E T \in Widths : \E s \in SeqsUpTo(UnitSamples(T), MaxBufUnits) :
    \E n \in 1..MaxBuflen :
      Start("as_utf8_buf", [T |-> T, base |-> s, buflen |-> n], <<>>)

\* The counted length is the whole buffer, or all of it but its last byte.
InitIsLegalUtf8 ==
  \E b \in RawBuffers : \E v \in BOOLEAN : \E n \in {Len(b) - 1, Len(b)} :
    /\ n >= 0
    /\ Start("is_legal_utf8", [length |-> n, version_leq_47 |-> v], b)

InitTruncate ==
  \E b \in CutBuffers :
    Start("truncate_to_legal_utf8", [length |-> Len(b), original |-> b], b)

InitUnicodeQuoted ==
  \E T \in Widths : \E s \in SeqsUpTo(UnitSamples(T), MaxQuoteUnits) :
    Start("unicode_as_quoted_ascii", [T |-> T, base |-> s], <<>>)

\* A UTF-8 source for as_quoted_ascii: the encoding of code units, or any bytes
\* followed by whatever lies behind the buffer.
InitUtf8Quoted ==
  \/ \E s \in SeqsUpTo(JcharSamples, MaxQuoteUnits) :
       LET b == convert_to_utf8(s)
       IN Start("utf8_as_quoted_ascii",
                [utf8_length |-> Len(b) - 1, encoded |-> TRUE, base |-> s], b \o <<0>>)
  \/ \E b \in SeqsUpTo(DecBytes, MaxDecLen) : \E t \in [1..2 -> TailBytes] :
       Start("utf8_as_quoted_ascii",
             [utf8_length |-> Len(b), encoded |-> FALSE, base |-> <<>>], b \o t)

\* from_quoted_ascii of a NUL-terminated string made of pieces; decoded is what
\* the pieces stand for.
InitFromQuotedAscii ==
  \E fs \in SeqsUpTo(QuotedFrags, MaxQuotedFrags) :
    Start("from_quoted_ascii",
          [quoted |-> \A i \in 1..Len(fs) : fs[i].quoted,
           decoded |-> Concat([i \in 1..Len(fs) |-> fs[i].bytes])],
          Concat([i \in 1..Len(fs) |-> fs[i].text]) \o <<0>>)

Init ==
  \/ InitConvertToUtf8
  \/ InitAsUtf8
  \/ InitAsUtf8Buf
  \/ InitIsLegalUtf8
  \/ InitTruncate
  \/ InitUnicodeQuoted
  \/ InitUtf8Quoted
  \/ InitFromQuotedAscii

\* UNICODE::convert_to_utf8(base, length, utf8_buffer)
ConvertToUtf8 ==
  /\ pc = "call" /\ op = "convert_to_utf8"
  /\ mem' = convert_to_utf8(arg.base)
  /\ pc' = "done"
  /\ UNCHANGED <<op, arg, ret, chk, ptr, result, loc>>

\* UTF8::next_character(str, &value) at the start of the buffer
NextCharacter ==
  /\ pc = "done" /\ op = "convert_to_utf8"
  /\ chk' = [fn |-> "next_character"] @@ next_character(mem, 0)
  /\ pc' = "checked"
  /\ UNCHANGED <<op, arg, mem, ret, ptr, result, loc>>

\* UNICODE::as_utf8(base, length): allocates, converts, asserts
AsUtf8 ==
  /\ pc = "call" /\ op = "as_utf8"
  /\ LET r == as_utf8(arg.T, arg.base)
     IN /\ mem' = r.result
        /\ ret' = [length |-> r.length, capacity |-> r.capacity, assert_ok |-> r.assert_ok]
  /\ pc' = "done"
  /\ UNCHANGED <<op, arg, chk, ptr, result, loc>>

\* UNICODE::as_utf8(base, length, buf, buflen)
AsUtf8Buf ==
  /\ pc = "call" /\ op = "as_utf8_buf"
  /\ mem' = as_utf8_buf(arg.T, arg.base, arg.buflen)
  /\ pc' = "done"
  /\ UNCHANGED <<op, arg, ret, chk, ptr, result, loc>>

\* UTF8::is_legal_utf8(buffer, length, version_leq_47) on untrusted bytes, with
\* the accesses it makes
IsLegalUtf8 ==
  /\ pc = "call" /\ op = "is_legal_utf8"
  /\ LET run == is_legal_utf8_run(mem, arg.length, arg.version_leq_47)
     IN ret' = [legal |-> is_legal_utf8(mem, arg.length, arg.version_leq_47),
                result |-> run.result, reads |-> run.reads, path |-> run.path,
                stray |-> run.stray]
  /\ pc' = "done"
  /\ UNCHANGED <<op, arg, mem, chk, ptr, result, loc>>

\* The length a caller has for the string in the buffer: the outgoing length of
\* as_utf8, the size measured for convert_to_utf8, strlen after a repair.
OutLength ==
  IF op = "as_utf8" THEN ret.length
  ELSE IF op = "convert_to_utf8" THEN utf8_length("jchar", arg.base)
  ELSE strlen(mem)

\* UTF8::is_legal_utf8 on the string a conversion or a repair left in the buffer
ValidateOutput ==
  /\ pc = "done" /\ op \in {"convert_to_utf8", "as_utf8", "truncate_to_legal_utf8"}
  /\ \E v \in BOOLEAN :
       chk' = [fn |-> "is_legal_utf8", version_leq_47 |-> v, length |-> OutLength,
               legal |-> is_legal_utf8(mem, OutLength, v)]
  /\ pc' = "checked"
  /\ UNCHANGED <<op, arg, mem, ret, ptr, result, loc>>

\* UTF8::unicode_length(str, len, is_latin1, has_multibyte) on a converted string
UnicodeLength ==
  /\ pc = "done" /\ op = "as_utf8"
  /\ chk' = [fn |-> "unicode_length", known |-> unicode_length(mem, ret.length)]
  /\ pc' = "checked"
  /\ UNCHANGED <<op, arg, mem, ret, ptr, result, loc>>

\* UTF8::unicode_length(str, is_latin1, has_multibyte) on the same string
UnicodeLengthNul ==
  /\ pc = "checked" /\ chk.fn = "unicode_length"
  /\ chk' = [fn |-> "unicode_length_nul", known |-> chk.known, nul |-> unicode_length_nul(mem)]
  /\ pc' = "checked2"
  /\ UNCHANGED <<op, arg, mem, ret, ptr, result, loc>>

\* UTF8::truncate_to_legal_utf8(buffer, length)
TruncateToLegalUtf8 ==
  /\ pc = "call" /\ op = "truncate_to_legal_utf8"
  /\ mem' = truncate_to_legal_utf8(mem, arg.length)
  /\ pc' = "done"
  /\ UNCHANGED <<op, arg, ret, chk, ptr, result, loc>>

\* UNICODE::quoted_ascii_length<T>(base, length)
UnicodeQuotedAsciiLength ==
  /\ pc = "call" /\ op = "unicode_as_quoted_ascii"
  /\ result' = unicode_quoted_ascii_length(arg.base)
  /\ pc' = "sized"
  /\ UNCHANGED <<op, arg, mem, ret, chk, ptr, loc>>

\* UNICODE::as_quoted_ascii<T>(base, length, buf, buflen), buflen as measured
UnicodeAsQuotedAscii ==
  /\ pc = "sized" /\ op = "unicode_as_quoted_ascii"
  /\ ret' = [buf |-> unicode_as_quoted_ascii(arg.base, result + 1)]
  /\ pc' = "done"
  /\ UNCHANGED <<op, arg, mem, chk, ptr, result, loc>>

\* One iteration of the loop of UTF8::quoted_ascii_length(utf8_str, utf8_length)
QuotedAsciiLengthStep ==
  /\ pc \in {"call", "loop"} /\ op = "utf8_as_quoted_ascii"
  /\ ptr < arg.utf8_length
  /\ LET r == next(mem, ptr, "jchar")
     IN /\ ptr' = r.ptr
        /\ result' = IF r.value >= 32 /\ r.value < 127 THEN result + 1 ELSE result + 6
        /\ chk' = [fn |-> "next", from |-> ptr, value |-> r.value,
                   steps |-> IF pc = "call" THEN 1 ELSE chk.steps + 1]
  /\ pc' = "loop"
  /\ UNCHANGED <<op, arg, mem, ret, loc>>

\* The loop's exit: quoted_ascii_length returns result
QuotedAsciiLengthReturn ==
  /\ pc \in {"call", "loop"} /\ op = "utf8_as_quoted_ascii"
  /\ ~(ptr < arg.utf8_length)
  /\ pc' = "sized"
  /\ UNCHANGED <<op, arg, mem, ret, chk, ptr, result, loc>>

\* UTF8::as_quoted_ascii(utf8_str, utf8_length, buf, buflen), buflen as measured
Utf8AsQuotedAscii ==
  /\ pc = "sized" /\ op = "utf8_as_quoted_ascii"
  /\ ret' = [buf |-> utf8_as_quoted_ascii(mem, arg.utf8_length, result + 1)]
  /\ pc' = "done"
  /\ UNCHANGED <<op, arg, mem, chk, ptr, result, loc>>

\* One iteration of the initial scan of from_quoted_ascii on a character in
\* 32..126: nothing in the loop moves ptr, so the loop is where it was.
FromQuotedAsciiScan ==
  /\ pc \in {"call", "scan"} /\ op = "from_quoted_ascii"
  /\ At(mem, ptr) # 0
  /\ ~(At(mem, ptr) < 32 \/ At(mem, ptr) >= 127)
  /\ (IF pc = "call" THEN 0 ELSE chk.steps) < MaxScanSteps
  /\ chk' = [fn |-> "scan", steps |-> IF pc = "call" THEN 1 ELSE chk.steps + 1]
  /\ pc' = "scan"
  /\ UNCHANGED <<op, arg, mem, ret, ptr, result, loc>>

\* The initial scan is left, and the test after it made: at the NUL and by the
\* break, as written; on a character in 32..126 too, in a build that takes the
\* loop, which has no side effect, to end (as C++ allows it to) and drops it.
\* On the NUL the original string is returned; else the rounds start.
FromQuotedAsciiScanExit ==
  /\ pc \in {"call", "scan"} /\ op = "from_quoted_ascii"
  /\ IF At(mem, ptr) = 0
     THEN /\ ret' = [original |-> TRUE, buf |-> mem]
          /\ pc' = "done"
          /\ loc' = loc
     ELSE /\ loc' = from_quoted_ascii_locals(ptr)
          /\ pc' = "round"
          /\ ret' = ret
  /\ UNCHANGED <<op, arg, mem, chk, ptr, result>>

\* One iteration of the inner loop on a character that is no backslash
FromQuotedAsciiLiteral ==
  /\ pc = "round" /\ op = "from_quoted_ascii"
  /\ At(mem, ptr) # 0 /\ At(mem, ptr) # 92
  /\ loc.length < MaxLength
  /\ loc' = from_quoted_ascii_literal(mem, ptr, loc)
  /\ UNCHANGED <<op, arg, mem, ret, pc, chk, ptr, result>>

\* One iteration of the inner loop on a backslash
FromQuotedAsciiEscape ==
  /\ pc = "round" /\ op = "from_quoted_ascii"
  /\ At(mem, ptr) = 92
  /\ LET r == from_quoted_ascii_escape(mem, ptr, loc)
     IN /\ ptr' = r.ptr
        /\ loc' = r.st
        /\ pc' = IF r.fatal THEN "fatal" ELSE "round"
  /\ UNCHANGED <<op, arg, mem, ret, chk, result>>

\* The inner loop ends at the NUL: round 0 allocates the buffer and goes back to
\* the start of the string, round 1 closes the buffer and returns it.
FromQuotedAsciiRoundEnd ==
  /\ pc = "round" /\ op = "from_quoted_ascii"
  /\ At(mem, ptr) = 0
  /\ IF loc.round = 0
     THEN /\ \E fill \in FreshBytes : loc' = from_quoted_ascii_round_end(loc, fill)
          /\ ptr' = 0
          /\ pc' = "round"
          /\ ret' = ret
     ELSE /\ loc' = from_quoted_ascii_round_end(loc, 0)
          /\ ptr' = ptr
          /\ pc' = "done"
          /\ ret' = [original |-> FALSE, buf |-> loc'.buffer.cells,
                     beyond |-> loc'.buffer.beyond]
  /\ UNCHANGED <<op, arg, mem, chk, result>>

Next ==
  \/ ConvertToUtf8
  \/ NextCharacter
  \/ AsUtf8
  \/ AsUtf8Buf
  \/ IsLegalUtf8
  \/ ValidateOutput
  \/ UnicodeLength
  \/ UnicodeLengthNul
  \/ TruncateToLegalUtf8
  \/ UnicodeQuotedAsciiLength
  \/ UnicodeAsQuotedAscii
  \/ QuotedAsciiLengthStep
  \/ QuotedAsciiLengthReturn
  \/ Utf8AsQuotedAscii
  \/ FromQuotedAsciiScan
  \/ FromQuotedAsciiScanExit
  \/ FromQuotedAsciiLiteral
  \/ FromQuotedAsciiEscape
  \/ FromQuotedAsciiRoundEnd

Spec == Init /\ [][Next]_vars

----------------------------------------------------------------------------
(* The encoding table and the grammar the properties are stated against *)

IsCont(b) == \h80 <= b /\ b <= \hBF

\* The value of a code unit: a jbyte holds the values 0..255 as -128..127.
UnitValue(T, c) == IF T = "jchar" THEN c ELSE c % 256

\* Bytes of one code unit by the table of Modified UTF-8.
TableBytes(v) ==
  IF v = 0 THEN <<\hC0, \h80>>
  ELSE IF v <= \h7F THEN <<v>>
  ELSE IF v <= \h7FF THEN <<\hC0 + (v \div 64), \h80 + (v % 64)>>
  ELSE <<\hE0 + (v \div 4096), \h80 + ((v \div 64) % 64), \h80 + (v % 64)>>

\* Number of bytes of a code point by the table.
TableSize(p) ==
  IF p = 0 THEN 2
  ELSE IF p <= \h7F THEN 1
  ELSE IF p <= \h7FF THEN 2
  ELSE IF p <= \hFFFF THEN 3
  ELSE 6

TableEncode(T, units) == Concat([i \in 1..Len(units) |-> TableBytes(UnitValue(T, units[i]))])

IsPrefix(s, t) == Len(s) <= Len(t) /\ s = SubSeq(t, 1, Len(s))

\* b splits, left to right, into 1-, 2- and 3-byte units.
RECURSIVE WellFormed(_, _)
WellFormed(b, leq47) ==
  IF b = <<>> THEN TRUE
  ELSE IF 1 <= b[1] /\ b[1] <= \h7F THEN WellFormed(Tail(b), leq47)
  ELSE IF \hC0 <= b[1] /\ b[1] <= \hDF THEN
    /\ Len(b) >= 2
    /\ IsCont(b[2])
    /\ LET v == (b[1] - \hC0) * 64 + (b[2] - \h80) IN leq47 \/ v = 0 \/ v >= \h80
    /\ WellFormed(SubSeq(b, 3, Len(b)), leq47)
  ELSE IF \hE0 <= b[1] /\ b[1] <= \hEF THEN
    /\ Len(b) >= 3
    /\ IsCont(b[2])
    /\ IsCont(b[3])
    /\ LET v == (b[1] - \hE0) * 4096 + (b[2] - \h80) * 64 + (b[3] - \h80)
       IN leq47 \/ v >= \h800
    /\ WellFormed(SubSeq(b, 4, Len(b)), leq47)
  ELSE FALSE

----------------------------------------------------------------------------
(* Properties *)

\* C1: a code point that is no lone surrogate, encoded (one utf8_write, or two
\* over its surrogate pair) and decoded by next_character, comes back as itself,
\* and the decoder consumes exactly the bytes emitted: 2 for 0 (C0 80), 1 up to
\* 7F, 2 up to 7FF, 3 up to FFFF, 6 above.
C1_RoundTrip ==
  (op = "convert_to_utf8" /\ arg.cp >= 0 /\ ~IsSurrogate(arg.cp)) =>
    /\ pc \in {"done", "checked"} =>
         /\ Len(mem) = TableSize(arg.cp) + 1
         /\ arg.cp = 0 => mem = <<\hC0, \h80, 0>>
         /\ arg.cp = \h20AC => mem = <<\hE2, \h82, \hAC, 0>>
         /\ arg.cp = \h1F600 => mem = <<\hED, \hA0, \hBD, \hED, \hB8, \h80, 0>>
    /\ (pc = "checked" /\ chk.fn = "next_character") =>
         /\ chk.value = arg.cp
         /\ chk.ptr = Len(mem) - 1
         /\ chk.ptr = TableSize(arg.cp)

C1_Witness ==
  /\ op = "convert_to_utf8" /\ pc = "checked" /\ chk.fn = "next_character"
  /\ arg.cp = \h10FFFF /\ chk.value = \h10FFFF /\ chk.ptr = 6

\* C2: is_legal_utf8 returns true exactly when the counted bytes split left to
\* right into 1-byte units 01..7F, 2-byte units (lead C0..DF, one continuation;
\* value 0 or >= 80 unless version_leq_47) and 3-byte units (lead E0..EF, two
\* continuations; value >= 800 unless version_leq_47).
C2_LegalIffWellFormed ==
  (op = "is_legal_utf8" /\ pc = "done") =>
    ret.legal = WellFormed(SubSeq(mem, 1, arg.length), arg.version_leq_47)

C2_Witness ==
  /\ op = "is_legal_utf8" /\ pc = "done"
  /\ mem = <<\h41, \h42, \h43, \h44, \hED, \hA0, \hBD, \hED, \hB8, \h80>>
  /\ ~arg.version_leq_47 /\ ret.legal

\* C3: what the bulk encoder writes for any code units (NUL and surrogates
\* included), without the closing NUL, is legal in strict and in legacy mode.
C3_EncoderOutputLegal ==
  (op \in {"as_utf8", "convert_to_utf8"} /\ pc = "checked" /\ chk.fn = "is_legal_utf8") =>
    chk.legal

C3_Witness ==
  /\ op = "as_utf8" /\ pc = "checked" /\ chk.fn = "is_legal_utf8"
  /\ arg.T = "jchar" /\ arg.base = <<\hDE00, \h0000, \hD83D>>
  /\ chk.length = 8 /\ ~chk.version_leq_47 /\ chk.legal

\* C4: on the encoder's output both unicode_length variants return the number
\* of code units, is_latin1 exactly when every unit is <= FF, has_multibyte
\* exactly when some unit took more than one byte; and they agree.
C4_Expected ==
  [num_chars |-> Len(arg.base),
   has_multibyte |-> \E i \in 1..Len(arg.base) :
                       Len(TableBytes(UnitValue(arg.T, arg.base[i]))) > 1,
   is_latin1 |-> \A i \in 1..Len(arg.base) : UnitValue(arg.T, arg.base[i]) <= \hFF]

C4_UnicodeLength ==
  /\ (op = "as_utf8" /\ pc = "checked" /\ chk.fn = "unicode_length") =>
       chk.known = C4_Expected
  /\ (op = "as_utf8" /\ pc = "checked2" /\ chk.fn = "unicode_length_nul") =>
       /\ chk.nul = C4_Expected
       /\ chk.nul = chk.known

C4_Witness ==
  /\ op = "as_utf8" /\ pc = "checked2" /\ chk.fn = "unicode_length_nul"
  /\ arg.T = "jchar" /\ arg.base = <<\h00FF, \h0100, \h0001>>
  /\ chk.nul = [num_chars |-> 3, has_multibyte |-> TRUE, is_latin1 |-> FALSE]

\* The content of a NUL-terminated buffer of the given length.
Content(b, length) == SubSeq(b, 1, length - 1)

\* C5: a NUL-terminated buffer, longer than 5, holding a legal sequence cut at any
\* byte, holds after truncate_to_legal_utf8 a string that is_legal_utf8 accepts
\* and that is a prefix of the content it had, and still ends with NUL.
C5_TruncateLeavesLegal ==
  op = "truncate_to_legal_utf8" =>
    /\ pc = "call" =>
         /\ arg.length > 5 /\ Len(mem) = arg.length /\ At(mem, arg.length - 1) = 0
         /\ \E s \in LegalSequences :
              /\ IsPrefix(Content(mem, arg.length), s)
              /\ is_legal_utf8(s, Len(s), FALSE)
    /\ pc \in {"done", "checked"} =>
         /\ Len(mem) = arg.length
         /\ At(mem, arg.length - 1) = 0
         /\ IsPrefix(c_str(mem), Content(arg.original, arg.length))
    /\ (pc = "checked" /\ chk.fn = "is_legal_utf8") =>
         /\ chk.length = strlen(mem)
         /\ chk.legal

C5_Witness ==
  /\ op = "truncate_to_legal_utf8" /\ pc = "checked" /\ chk.fn = "is_legal_utf8"
  /\ arg.original = <<\h41, \hE2, \h82, \hAC, \hE2, \h82, 0>>
  /\ mem = <<\h41, \hE2, \h82, \hAC, 0, \h82, 0>>
  /\ ~chk.version_leq_47 /\ chk.legal

\* Whether the bytes of c from index i on (those there are) fit the 6-byte
\* supplementary form ED Ax xx ED Bx xx.
FitsSupplementary(c, i) ==
  \A k \in 0..5 :
    (i + k < Len(c)) =>
      LET b == At(c, i + k)
      IN CASE k = 0 -> b = \hED
           [] k = 1 -> \hA0 <= b /\ b <= \hAF
           [] k = 2 -> IsCont(b)
           [] k = 3 -> b = \hED
           [] k = 4 -> \hB0 <= b /\ b <= \hBF
           [] k = 5 -> IsCont(b)

\* The index at which the final character of c, complete or cut, starts; c is a
\* legal sequence or a byte prefix of one.
RECURSIVE LastCharStart(_, _)
LastCharStart(c, i) ==
  LET b == At(c, i)
      n == IF b < \h80 THEN 1
           ELSE IF b <= \hDF THEN 2
           ELSE IF FitsSupplementary(c, i) THEN 6
           ELSE 3
  IN IF i + n >= Len(c) THEN i ELSE LastCharStart(c, i + n)

\* C6: truncate_to_legal_utf8 removes nothing, or the bytes of the final
\* character alone (of 1, 2, 3 or, for the supplementary form, 6 bytes, complete
\* or cut): no complete character before the final one is removed.
C6_DropsOnlyFinalCharacter ==
  (op = "truncate_to_legal_utf8" /\ pc = "done") =>
    LET c == Content(arg.original, arg.length)
    IN strlen(mem) \in {Len(c), LastCharStart(c, 0)}

\* The cases of C6 in which the code does what the claim says: no lone high
\* surrogate stands right before a final character with lead byte ED.
C6_HoldsElsewhere ==
  (op = "truncate_to_legal_utf8" /\ pc = "done") =>
    LET c == Content(arg.original, arg.length)
        last == LastCharStart(c, 0)
    IN \/ strlen(mem) \in {Len(c), last}
       \/ /\ last >= 3 /\ At(c, last) = \hED
          /\ At(c, last - 3) = \hED /\ \hA0 <= At(c, last - 2) /\ At(c, last - 2) <= \hAF
          /\ strlen(mem) = last - 3

\* C7: as_utf8 into a buffer of buflen >= 1 bytes writes within the buffer, ends
\* with NUL, and writes before it the encoding of the longest prefix of the code
\* units whose encoding takes at most buflen - 1 bytes.
C7_Fits(k) == Len(TableEncode(arg.T, SubSeq(arg.base, 1, k))) <= arg.buflen - 1

C7_BoundedConversion ==
  (op = "as_utf8_buf" /\ pc = "done") =>
    /\ Len(mem) >= 1 /\ Len(mem) <= arg.buflen
    /\ mem[Len(mem)] = 0
    /\ \A i \in 1..(Len(mem) - 1) : mem[i] # 0
    /\ \E k \in 0..Len(arg.base) :
         /\ C7_Fits(k)
         /\ k < Len(arg.base) => ~C7_Fits(k + 1)
         /\ SubSeq(mem, 1, Len(mem) - 1) = TableEncode(arg.T, SubSeq(arg.base, 1, k))

C7_Witness ==
  /\ op = "as_utf8_buf" /\ pc = "done"
  /\ arg.T = "jchar" /\ arg.base = <<\h0800, \h0001>> /\ arg.buflen = 3
  /\ mem = <<0>>

\* C8: utf8_size of a code unit is the number of bytes the encoder writes for
\* it, for both widths; so the auto-sizing as_utf8 never truncates, writes
\* utf8_length bytes that are not NUL and one NUL, and its assertion holds.
C8_LengthPredictionExact ==
  (op = "as_utf8" /\ pc = "done") =>
    /\ ret.assert_ok
    /\ ret.length = utf8_length(arg.T, arg.base)
    /\ Len(mem) = ret.length + 1
    /\ mem[Len(mem)] = 0
    /\ \A i \in 1..ret.length : mem[i] # 0
    /\ mem = TableEncode(arg.T, arg.base) \o <<0>>
    /\ \A i \in 1..Len(arg.base) :
         utf8_size(arg.T, arg.base[i]) = Len(as_utf8_buf(arg.T, <<arg.base[i]>>, 4)) - 1

C8_Witness ==
  /\ op = "as_utf8" /\ pc = "done"
  /\ arg.T = "jbyte" /\ arg.base = <<-128, 0, 65>>
  /\ ret.length = 5 /\ ret.assert_ok
  /\ mem = <<\hC2, \h80, \hC0, \h80, \h41, 0>>

\* The quoted form of a character value: itself in 32..126, else backslash, u
\* and four lowercase hex digits.
HexChars == <<48, 49, 50, 51, 52, 53, 54, 55, 56, 57, 97, 98, 99, 100, 101, 102>>

Quoted(v) ==
  IF 32 <= v /\ v <= 126 THEN <<v>>
  ELSE <<92, 117, HexChars[((v \div 4096) % 16) + 1], HexChars[((v \div 256) % 16) + 1],
         HexChars[((v \div 16) % 16) + 1], HexChars[(v % 16) + 1]>>

QuotedAll(T, units) == Concat([i \in 1..Len(units) |-> Quoted(UnitValue(T, units[i]))])

\* C9: with room enough, as_quoted_ascii writes every character in 32..126 as
\* itself and every other one as \u and the four lowercase hex digits of its
\* value, for 16-bit units, for 8-bit units (values 0..FF) and for UTF-8 input.
C9_QuotedAscii ==
  /\ (op = "unicode_as_quoted_ascii" /\ pc = "done") =>
       ret.buf = QuotedAll(arg.T, arg.base) \o <<0>>
  /\ (op = "utf8_as_quoted_ascii" /\ pc = "done" /\ arg.encoded) =>
       ret.buf = QuotedAll("jchar", arg.base) \o <<0>>

\* The cases of C9 in which the code does what the claim says: every source but
\* 8-bit units of value 80..FF.
C9_HoldsElsewhere ==
  /\ (op = "unicode_as_quoted_ascii" /\ pc = "done"
        /\ \A i \in 1..Len(arg.base) : arg.base[i] >= 0) =>
       ret.buf = QuotedAll(arg.T, arg.base) \o <<0>>
  /\ (op = "utf8_as_quoted_ascii" /\ pc = "done" /\ arg.encoded) =>
       ret.buf = QuotedAll("jchar", arg.base) \o <<0>>

\* C10: UTF8::next consumes 1, 2 or 3 bytes; 2 (3) only for a lead byte of high
\* nibble C or D (E) followed by one (two) continuation bytes; for any other
\* lead byte >= 80 it returns the lead byte and consumes 1. So a decoding loop
\* over n bytes takes at most n steps.
C10_NextMakesProgress ==
  /\ (op = "utf8_as_quoted_ascii" /\ pc = "loop") =>
       LET from == chk.from
           lead == At(mem, from)
           consumed == ptr - from
           two == lead \div 16 \in {12, 13} /\ IsCont(At(mem, from + 1))
           three == lead \div 16 = 14 /\ IsCont(At(mem, from + 1)) /\ IsCont(At(mem, from + 2))
       IN /\ consumed \in {1, 2, 3}
          /\ consumed = 2 <=> two
          /\ consumed = 3 <=> three
          /\ (lead >= \h80 /\ ~two /\ ~three) => (consumed = 1 /\ chk.value = lead)
          /\ lead < \h80 => (consumed = 1 /\ chk.value = lead)
          /\ from < arg.utf8_length
          /\ chk.steps <= from + 1
          /\ chk.steps <= arg.utf8_length
  /\ (op = "utf8_as_quoted_ascii" /\ pc \in {"sized", "done"}) =>
       ptr >= arg.utf8_length
  /\ (pc = "checked" /\ chk.fn = "next_character") =>
       /\ chk.ptr \in {1, 2, 3, 6}
       /\ chk.ptr = 6 <=> (Len(mem) >= 6 /\ FitsSupplementary(SubSeq(mem, 1, 6), 0))

C10_Witness ==
  /\ op = "utf8_as_quoted_ascii" /\ pc = "loop" /\ ~arg.encoded
  /\ arg.utf8_length = 3 /\ chk.steps = 3
  /\ SubSeq(mem, 1, 3) = <<\hC2, \hE2, \h80>>
  /\ chk.from = 2 /\ chk.value = \h80 /\ ptr = 3

\* C11: on a NUL-terminated quoted-ASCII string (characters 32..126 and the
\* escapes \t \n \r \f \uXXXX) from_quoted_ascii terminates: every iteration of
\* its initial scan and of the inner loop of each of its two rounds moves ptr
\* forward, no iteration reaches ShouldNotReachHere, and what it returns is a
\* NUL-terminated buffer holding the decoded bytes.
C11_FromQuotedAsciiTerminates ==
  [][(op = "from_quoted_ascii" /\ arg.quoted) =>
       /\ (pc \in {"call", "scan"} /\ pc' = "scan") => ptr' > ptr
       /\ (pc = "round" /\ pc' = "round" /\ loc'.round = loc.round) => ptr' > ptr
       /\ pc' # "fatal"
       /\ (pc # "done" /\ pc' = "done") => ret'.buf = arg.decoded \o <<0>>]_vars

\* What from_quoted_ascii does as C11 says: the empty string is returned as it
\* is, and an iteration on an escape moves ptr past the escape (2 or 6
\* characters) and adds to length the bytes the escape stands for (1 to 3).
C11_HoldsElsewhere ==
  [][(op = "from_quoted_ascii" /\ arg.quoted) =>
       /\ (pc = "call" /\ mem = <<0>> /\ pc' = "done") => ret'.buf = <<0>>
       /\ (pc = "round" /\ At(mem, ptr) = 92) =>
            /\ pc' = "round"
            /\ ptr' - ptr = (IF At(mem, ptr + 1) = 117 THEN 6 ELSE 2)
            /\ loc'.length - loc.length \in 1..3
            /\ loc'.round = loc.round]_vars

\* C12: is_legal_utf8 reads no byte at an index >= length, whatever the bytes
\* and the length (0, lengths that are no multiple of 4, buffers ending in a cut
\* 2-, 3- or 6-byte sequence): the accesses of the 4-byte blocks, of the
\* supplementary test and of the continuation checks are all in 0..length - 1,
\* and the index i, from 0, only increases until the function returns.
C12_ReadsWithinLength ==
  (op = "is_legal_utf8" /\ pc = "done") =>
    /\ ~ret.stray
    /\ \A r \in ret.reads : 0 <= r /\ r < arg.length
    /\ arg.length = 0 => (ret.reads = {} /\ ret.result)
    /\ ret.path[1] = 0
    /\ \A k \in 1..(Len(ret.path) - 1) : ret.path[k] < ret.path[k + 1]
    /\ ret.result = ret.legal

C12_Witness ==
  /\ op = "is_legal_utf8" /\ pc = "done"
  /\ mem = <<\hED, \hA0, \h80, \hED, \hB0, \h80>>
  /\ arg.length = 5
  /\ ret.reads = 0..3
  /\ ret.path = <<0, 2, 3, 5>>
  /\ ~ret.result

====
